---- MODULE Spec2Model ----
(***************************************************************************)
(* Model of the concurrent-event crate: Event (src/lib.rs), HandlerId      *)
(* (src/id.rs) and the handlers of src/handler.rs, instantiated with the   *)
(* closures used in src/test.rs.  The registry is the boxed variant        *)
(* Event<i32, Box<dyn EventHandler<i32>>>, so handlers of different kinds  *)
(* share one registry.                                                     *)
(***************************************************************************)
EXTENDS Integers, Sequences, FiniteSets, TLC

\* ---- bounds ----
\* number of distinct values HandlerId::new can draw in the model
MaxIds == 2
\* number of add_handler calls
MaxAdds == 2
\* number of emit calls
MaxRounds == 2

\* the values rng.gen() can produce
Ids == 1..MaxIds
\* an identifier value used where no identifier is present
NoId == 0
\* event arguments (the ones emitted in test.rs; sums stay far inside i32)
Args == {3, 5}
\* the closures of test.rs that keep a state the tests assert on
Kinds == {"sum", "prod", "panic"}

VARIABLES
  handlers,     \* Event.handlers : HashMap<HandlerId, H>
  pc,           \* position of the caller: "idle", "emitting", "unwound"
  arg,          \* parameter of the emit call in progress / last made
  toSpawn,      \* handlers the for loop of emit has not reached yet
  threads,      \* state of the scoped thread of each handler in this round
  targ,         \* argument moved into the closure of each spawned thread
  calls,        \* number of on_event invocations per handler in this round
  pre,          \* the registry as it was when the current emit started
  ret,          \* what the last finished call returned
  hist,         \* arguments of the emit calls made so far
  regAt,        \* Len(hist) at the time each handler was registered
  prevPanicked, \* handlers that panicked in the round before the current one
  adds,         \* number of add_handler calls made so far
  collisions    \* number of add_handler calls whose id was already a key

vars == <<handlers, pc, arg, toSpawn, threads, targ, calls, pre, ret, hist,
          regAt, prevPanicked, adds, collisions>>

\* ---- handlers (src/handler.rs, closures of src/test.rs) ----

\* StatefulEventHandler::new(f, initial_state) / StatelessEventHandler::new(f)
NewHandler(kind) ==
  [kind |-> kind,
   n |-> IF kind = "prod" THEN 1 ELSE 0,
   b |-> FALSE,
   panicked |-> FALSE,
   calmed |-> FALSE]

NoHandler == [kind |-> "none", n |-> 0, b |-> FALSE, panicked |-> FALSE,
              calmed |-> FALSE]

\* |arg, state| *state += arg
sum_closure(a, h) == [h |-> [h EXCEPT !.n = h.n + a], ok |-> TRUE]

\* |arg, state| *state *= arg
prod_closure(a, h) == [h |-> [h EXCEPT !.n = h.n * a], ok |-> TRUE]

\* |_, s| *s = true
flag_closure(a, h) == [h |-> [h EXCEPT !.b = TRUE], ok |-> TRUE]

\* |_, s| if s.panicked { s.calmed = true } else { s.panicked = true; panic!() }
panic_closure(a, h) ==
  IF h.panicked
    THEN [h |-> [h EXCEPT !.calmed = TRUE], ok |-> TRUE]
    ELSE [h |-> [h EXCEPT !.panicked = TRUE], ok |-> FALSE]

\* |_: i32| { }
noop_closure(a, h) == [h |-> h, ok |-> TRUE]

\* a handler whose on_event never returns (|_| loop { }); the crate sets no
\* limit on what an EventHandler does
Returns(h) == h.kind # "hang"

func(kind, a, h) ==
  CASE kind = "sum" -> sum_closure(a, h)
    [] kind = "prod" -> prod_closure(a, h)
    [] kind = "flag" -> flag_closure(a, h)
    [] kind = "panic" -> panic_closure(a, h)
    [] OTHER -> noop_closure(a, h)

\* a handler that hands the closure its initial state instead of self.state
on_event_fresh(h, a) == func(h.kind, a, NewHandler(h.kind))

\* a handler whose writes are undone when the closure panics
on_event_rollback(h, a) ==
  IF func(h.kind, a, h).ok THEN func(h.kind, a, h) ELSE [h |-> h, ok |-> FALSE]

\* EventHandler::on_event: (self.func)(arg, &mut self.state); the result is
\* the handler afterwards and whether the call returned (ok) or panicked
on_event(h, a) == func(h.kind, a, h)

\* ---- registry (src/lib.rs, src/id.rs) ----

\* an insert that keeps the entry already stored under the key
insert_if_absent(hs, id, h) ==
  [k \in DOMAIN hs \cup {id} |-> IF k \in DOMAIN hs THEN hs[k] ELSE h]

\* HashMap::insert: the value stored under an equal key is replaced
insert(hs, id, h) ==
  [k \in DOMAIN hs \cup {id} |-> IF k = id THEN h ELSE hs[k]]

\* a lookup that answers with the entry of another key
get_wrong_key(hs, id) ==
  IF id \in DOMAIN hs
    THEN [found |-> TRUE,
          h |-> hs[CHOOSE k \in DOMAIN hs : DOMAIN hs = {id} \/ k # id]]
    ELSE [found |-> FALSE, h |-> NoHandler]

\* a lookup that answers a miss with some registered handler
get_or_default(hs, id) ==
  IF id \in DOMAIN hs THEN [found |-> TRUE, h |-> hs[id]]
  ELSE IF DOMAIN hs = {} THEN [found |-> FALSE, h |-> NoHandler]
  ELSE [found |-> TRUE, h |-> hs[CHOOSE k \in DOMAIN hs : TRUE]]

\* HashMap::get
get(hs, id) ==
  IF id \in DOMAIN hs THEN [found |-> TRUE, h |-> hs[id]]
                      ELSE [found |-> FALSE, h |-> NoHandler]

\* an iteration that leaves one entry out
values_mut_skip(hs) ==
  IF hs = <<>> THEN {} ELSE DOMAIN hs \ {CHOOSE k \in DOMAIN hs : TRUE}

\* self.handlers.values_mut(): every entry, in an unspecified order
values_mut(hs) == DOMAIN hs

\* a write that reaches every handler instead of the thread's own
store_shared(hs, id, h) == [k \in DOMAIN hs |-> h]

\* a handler taken out of the map for its run and not put back
store_drop(hs, id, h) == [k \in DOMAIN hs \ {id} |-> hs[k]]

\* the thread of handler id holds the only &mut to it: its write goes there
store(hs, id, h) == [hs EXCEPT ![id] = h]

\* a dispatcher that starts a handler only while no other one is running
can_start_serial(ts, id) ==
  ts[id] = "spawned" /\ \A j \in DOMAIN ts \ {id} : ts[j] # "running"

\* a spawned thread is its own unit of scheduling: it starts whatever the
\* other threads of the scope are doing
can_start(ts, id) == ts[id] = "spawned"

\* a panic that takes the other threads of the scope down with it
thread_exit_abort(ts, id, ok) ==
  IF ok THEN [ts EXCEPT ![id] = "done"]
  ELSE [k \in DOMAIN ts |-> IF ts[k] = "none" THEN "none" ELSE "panicked"]

\* a scoped thread ends: normally, or with its panic caught at its boundary
thread_exit(ts, id, ok) ==
  [ts EXCEPT ![id] = IF ok THEN "done" ELSE "panicked"]

Finished(ts, snap) == \A id \in snap : ts[id] \in {"done", "panicked"}

\* the join handles the scope holds: one per thread spawned in it
Spawned(ts) == {id \in DOMAIN ts : ts[id] # "none"}

\* a scope that returns without waiting for its threads
all_joined_nowait(ts, snap) == TRUE

\* thread::scope joins every spawned thread before it returns
all_joined(ts, snap) == Finished(ts, snap)

\* a scope that re-raises the panic of a child (as std::thread::scope does)
scope_propagate(ts, snap) ==
  IF \E id \in snap : ts[id] = "panicked" THEN "Unwind" ELSE "Ok"

\* a scope that reports Ok only when some thread finished normally
scope_any(ts, snap) ==
  IF \E id \in snap : ts[id] = "done" THEN "Ok" ELSE "Err"

\* thread::scope: Err(panics) if a child panicked, Ok otherwise; it unwinds
\* only when the scope closure itself panics, which the closure of emit,
\* a plain loop of spawns, does not
scope(ts, snap) ==
  IF \E id \in snap : ts[id] = "panicked" THEN "Err" ELSE "Ok"

\* a result that stays false once a handler has panicked in an earlier round
is_ok_sticky(r) == r = "Ok" /\ prevPanicked = {}

\* a result that is always true
is_ok_always(r) == TRUE

\* Result::is_ok
is_ok(r) == r = "Ok"

NoRet == [op |-> "none", ok |-> FALSE, id |-> NoId, found |-> FALSE,
          h |-> NoHandler]

Init ==
  /\ handlers = <<>>
  /\ pc = "idle"
  /\ arg = 0
  /\ toSpawn = {}
  /\ threads = [id \in Ids |-> "none"]
  /\ targ = [id \in Ids |-> 0]
  /\ calls = [id \in Ids |-> 0]
  /\ pre = <<>>
  /\ ret = NoRet
  /\ hist = <<>>
  /\ regAt = [id \in Ids |-> 0]
  /\ prevPanicked = {}
  /\ adds = 0
  /\ collisions = 0

\* HandlerId::new(): random bytes, no check against the registry
HandlerId_new == Ids

\* Event::add_handler
add_handler(h) ==
  /\ pc = "idle"
  /\ adds < MaxAdds
  /\ \E id \in HandlerId_new :
       /\ handlers' = insert(handlers, id, h)
       /\ ret' = [NoRet EXCEPT !.op = "add", !.id = id]
       /\ regAt' = [regAt EXCEPT ![id] = Len(hist)]
       /\ collisions' = collisions + (IF id \in DOMAIN handlers THEN 1 ELSE 0)
  /\ adds' = adds + 1
  /\ UNCHANGED <<pc, arg, toSpawn, threads, targ, calls, pre, hist,
                 prevPanicked>>

\* Event::get_handler
get_handler(id) ==
  /\ pc = "idle"
  /\ ret' = [NoRet EXCEPT !.op = "get", !.id = id,
                          !.found = get(handlers, id).found,
                          !.h = get(handlers, id).h]
  /\ UNCHANGED <<handlers, pc, arg, toSpawn, threads, targ, calls, pre, hist,
                 regAt, prevPanicked, adds, collisions>>

\* Event::emit is called: thread::scope starts, the for loop begins
emit_start(a) ==
  /\ pc = "idle"
  /\ Len(hist) < MaxRounds
  /\ pc' = "emitting"
  /\ arg' = a
  /\ toSpawn' = values_mut(handlers)
  /\ pre' = handlers
  /\ prevPanicked' = IF hist = <<>> THEN {}
                     ELSE {id \in DOMAIN pre \cap DOMAIN handlers :
                             threads[id] = "panicked" /\ regAt[id] < Len(hist)}
  /\ threads' = [id \in Ids |-> "none"]
  /\ targ' = [id \in Ids |-> 0]
  /\ calls' = [id \in Ids |-> 0]
  /\ hist' = Append(hist, a)
  /\ ret' = NoRet
  /\ UNCHANGED <<handlers, regAt, adds, collisions>>

\* s.spawn(move |_| handler.on_event(arg)) for the next handler of the loop
spawn(id) ==
  /\ pc = "emitting"
  /\ id \in toSpawn
  /\ toSpawn' = toSpawn \ {id}
  /\ threads' = [threads EXCEPT ![id] = "spawned"]
  /\ targ' = [targ EXCEPT ![id] = arg]
  /\ UNCHANGED <<handlers, pc, arg, calls, pre, ret, hist, regAt,
                 prevPanicked, adds, collisions>>

\* the spawned thread is scheduled and enters handler.on_event(arg)
on_event_begin(id) ==
  /\ can_start(threads, id)
  /\ threads' = [threads EXCEPT ![id] = "running"]
  /\ calls' = [calls EXCEPT ![id] = @ + 1]
  /\ UNCHANGED <<handlers, pc, arg, toSpawn, targ, pre, ret, hist, regAt,
                 prevPanicked, adds, collisions>>

\* handler.on_event(arg) returns or panics; the thread ends
on_event_end(id) ==
  /\ threads[id] = "running"
  /\ Returns(handlers[id])
  /\ LET r == on_event(handlers[id], targ[id]) IN
       /\ handlers' = store(handlers, id, r.h)
       /\ threads' = thread_exit(threads, id, r.ok)
  /\ UNCHANGED <<pc, arg, toSpawn, targ, calls, pre, ret, hist, regAt,
                 prevPanicked, adds, collisions>>

\* the loop is over, the scope has joined its threads, emit returns
emit_return ==
  /\ pc = "emitting"
  /\ toSpawn = {}
  /\ all_joined(threads, Spawned(threads))
  /\ LET r == scope(threads, Spawned(threads)) IN
       /\ pc' = IF r = "Unwind" THEN "unwound" ELSE "idle"
       /\ ret' = [NoRet EXCEPT !.op = "emit", !.ok = is_ok(r)]
  /\ UNCHANGED <<handlers, arg, toSpawn, threads, targ, calls, pre, hist,
                 regAt, prevPanicked, adds, collisions>>

Next ==
  \/ \E k \in Kinds : add_handler(NewHandler(k))
  \/ \E id \in Ids \cup {NoId} : get_handler(id)
  \/ \E a \in Args : emit_start(a)
  \/ \E id \in Ids : spawn(id)
  \/ \E id \in Ids : on_event_begin(id)
  \/ \E id \in Ids : on_event_end(id)
  \/ emit_return

Spec == Init /\ [][Next]_vars

\* handlers for the runs that look at blocking: the stateless closure and the
\* flag closure of test.rs, which return, the one that panics, and one that
\* never returns
KindsLive == {"noop", "flag", "panic", "hang"}

NextLive ==
  \/ \E k \in KindsLive : add_handler(NewHandler(k))
  \/ emit_start(3)
  \/ \E id \in Ids : spawn(id)
  \/ \E id \in Ids : on_event_begin(id)
  \/ \E id \in Ids : on_event_end(id)
  \/ emit_return

\* the scheduler lets every runnable thread proceed: the caller's loop and
\* join, and each spawned thread
Fairness ==
  /\ \A id \in Ids : WF_vars(spawn(id))
  /\ \A id \in Ids : WF_vars(on_event_begin(id))
  /\ \A id \in Ids : WF_vars(on_event_end(id))
  /\ WF_vars(emit_return)

SpecLive == Init /\ [][NextLive]_vars /\ Fairness

TypeOK ==
  /\ DOMAIN handlers \subseteq Ids
  /\ pc \in {"idle", "emitting", "unwound"}
  /\ toSpawn \subseteq Ids
  /\ \A id \in Ids : threads[id] \in {"none", "spawned", "running", "done", "panicked"}
  /\ Len(hist) <= MaxRounds
  /\ adds <= MaxAdds

\* ---- properties of emit ----

\* the handlers of the round that ended with the last return of emit
Round == DOMAIN pre

\* the state handler id has after one on_event(arg) on its state at emit start
After(id) == on_event(pre[id], arg).h

\* a get_handler call made right after emit returned sees the handler as its
\* on_event of that round left it
GetAfterEmit(ids) ==
  (ret.op = "emit" /\ ret'.op = "get" /\ ret'.id \in ids)
     => (ret'.found /\ ret'.h = After(ret'.id))

\* C1: emit returns true iff every handler dispatched in the round completed
\* normally, and false iff at least one of them panicked, however many
\* panicked and in whatever order they finished
C1_EmitTrueIffAllNormal ==
  ret.op = "emit" =>
     /\ ret.ok <=> (\A id \in Round : threads[id] = "done")
     /\ ~ret.ok <=> (\E id \in Round : threads[id] = "panicked")

\* C1 witness: emit returned false after two handlers panicked
C1_Witness ==
  /\ ret.op = "emit" /\ ~ret.ok
  /\ Cardinality({id \in Round : threads[id] = "panicked"}) = 2

\* C2 (state part): in the state where emit returns no handler execution of
\* the round is in progress, and every handler holds its mutation
C2_ReturnedMeansFinished ==
  ret.op = "emit" =>
     \A id \in Round : /\ threads[id] \in {"done", "panicked"}
                       /\ handlers[id] = After(id)

\* C2: emit does not return while a handler execution it dispatched is in
\* progress, so a get_handler right after emit sees the handler's mutation
C2_EmitAwaitsHandlers ==
  [](C2_ReturnedMeansFinished) /\ [][GetAfterEmit(Round)]_vars

\* C2 witness: get_handler right after a first emit with two handlers, none
\* of which panicked, finds the product handler holding the argument
C2_Witness ==
  /\ ret.op = "get" /\ ret.found /\ ret.h.kind = "prod" /\ ret.h.n = arg
  /\ Len(hist) = 1 /\ Cardinality(Round) = 2
  /\ \A id \in Round : threads[id] = "done"

SomePanicked == \E p \in Round : threads[p] = "panicked"

\* C3 (state part): when a handler panicked, every handler of the round was
\* still started, finished, and holds its own mutation when emit returns
C3_SiblingsComplete ==
  (ret.op = "emit" /\ SomePanicked) =>
     \A id \in Round : /\ calls[id] = 1
                       /\ threads[id] \in {"done", "panicked"}
                       /\ handlers[id] = After(id)

\* C3 (step part): the step in which a thread panics changes neither the
\* state of another thread nor the handlers still to be spawned
C3_PanicLeavesSiblings ==
  \A i \in Ids :
     (threads[i] = "running" /\ threads'[i] = "panicked") =>
        /\ toSpawn' = toSpawn
        /\ \A j \in Ids \ {i} : threads'[j] = threads[j] /\ calls'[j] = calls[j]

\* C3: failure isolation: a panic of one handler neither halts nor cancels a
\* sibling, and the siblings' mutations are seen by get_handler afterwards
C3_FailureIsolation ==
  /\ [](C3_SiblingsComplete)
  /\ [][C3_PanicLeavesSiblings]_vars
  /\ [][SomePanicked => GetAfterEmit(Round)]_vars

\* C3 witness: get_handler after a round in which one handler panicked
\* returns the sum handler with the argument added
C3_Witness ==
  /\ ret.op = "get" /\ ret.found /\ ret.h.kind = "sum" /\ ret.h.n = arg
  /\ Len(hist) = 1 /\ SomePanicked /\ pc = "idle"

\* C4: in every emit(arg) round each handler registered when emit starts has
\* on_event invoked exactly once, with arg; none is skipped, none is invoked
\* twice, none outside the snapshot is invoked
C4_EachHandlerOnce ==
  /\ \A id \in Ids : calls[id] <= 1
  /\ \A id \in Ids \ Round : calls[id] = 0 /\ threads[id] = "none"
  /\ \A id \in Ids : threads[id] # "none" =>
        (targ[id] = arg /\ arg = hist[Len(hist)])
  /\ \A id \in Ids : calls[id] = 1 <=> threads[id] \in {"running", "done", "panicked"}
  /\ ret.op = "emit" => \A id \in Round : calls[id] = 1 /\ targ[id] = arg

\* C4 witness: a round with two handlers and argument 5 returned
C4_Witness ==
  /\ ret.op = "emit" /\ Cardinality(Round) = 2 /\ arg = 5
  /\ \A id \in Round : calls[id] = 1

\* C5: a handler's panic never escapes emit: for any number of panicking
\* handlers emit returns normally, and all the caller gets is the boolean
C5_PanicNeverEscapes ==
  /\ pc # "unwound"
  /\ (pc = "emitting" /\ toSpawn = {} /\ Finished(threads, Round))
        => ENABLED emit_return
  /\ (ret.op = "emit" /\ SomePanicked) =>
        (pc = "idle" /\ ret = [NoRet EXCEPT !.op = "emit", !.ok = FALSE])

\* C5 witness: emit returned after every one of two handlers panicked
C5_Witness ==
  /\ ret.op = "emit" /\ pc = "idle" /\ Cardinality(Round) = 2
  /\ \A id \in Round : threads[id] = "panicked"

\* ---- properties across rounds and of the registry ----

RECURSIVE SeqSum(_)
SeqSum(s) == IF s = <<>> THEN 0 ELSE s[1] + SeqSum(Tail(s))

RECURSIVE SeqProd(_)
SeqProd(s) == IF s = <<>> THEN 1 ELSE s[1] * SeqProd(Tail(s))

\* the arguments handler id has finished processing: those emitted since it
\* was registered, the current round's only once its thread has ended
Processed(id) ==
  LET upto == IF pc = "emitting" /\ threads[id] \notin {"done", "panicked"}
                THEN Len(hist) - 1 ELSE Len(hist)
  IN SubSeq(hist, regAt[id] + 1, upto)

\* C6: a handler that panicked in round N is still registered and is
\* dispatched again in round N+1, and the result of round N+1 is decided by
\* the outcomes of round N+1 alone
C6_PanicDoesNotUnregister ==
  /\ \A id \in Ids : threads[id] = "panicked" => id \in DOMAIN handlers
  /\ pc = "emitting" => prevPanicked \subseteq Round
  /\ ret.op = "emit" =>
        /\ \A id \in prevPanicked :
              id \in DOMAIN handlers /\ calls[id] = 1
                 /\ threads[id] \in {"done", "panicked"}
        /\ ret.ok = (\A id \in Round : threads[id] = "done")

\* C6 witness: round 2 returned true although a handler panicked in round 1
C6_Witness ==
  /\ ret.op = "emit" /\ ret.ok /\ Len(hist) = 2
  /\ \E id \in prevPanicked : handlers[id].calmed /\ calls[id] = 1

\* C7 (state part): a sum handler holds the sum of the arguments it has
\* processed since its registration
C7_SumOfArguments ==
  \A id \in DOMAIN handlers :
     handlers[id].kind = "sum" => handlers[id].n = SeqSum(Processed(id))

\* C7 (step part): between rounds (add_handler, get_handler, the start of
\* the next emit) a handler keeps the state the last round left, unless a
\* registration replaces the handler itself
C7_StateKeptBetweenRounds ==
  pc = "idle" =>
     \A id \in DOMAIN handlers :
        \/ id \in DOMAIN handlers' /\ handlers'[id] = handlers[id]
        \/ adds' = adds + 1 /\ ret'.id = id

\* C7: state mutations persist across rounds; a handler that starts at 0 and
\* adds the argument holds a1+...+an after the emits a1..an
C7_StatePersists ==
  [](C7_SumOfArguments) /\ [][C7_StateKeptBetweenRounds]_vars

\* C7 witness: the sum handler registered first holds 8 after emit 5, emit 3
C7_Witness ==
  /\ pc = "idle" /\ hist = <<5, 3>>
  /\ \E id \in DOMAIN handlers :
        handlers[id].kind = "sum" /\ regAt[id] = 0 /\ handlers[id].n = 8

\* C8 (step part): a step changes the state of a registered handler only if
\* it is the end of that handler's own on_event, or a registration under
\* that handler's identifier
C8_OnlyOwnThreadWrites ==
  \A j \in DOMAIN handlers :
     (j \in DOMAIN handlers' /\ handlers'[j] # handlers[j]) =>
        \/ threads[j] = "running" /\ threads'[j] \in {"done", "panicked"}
        \/ adds' = adds + 1 /\ ret'.id = j

\* C8 (state part): each handler's state is determined by its initial state
\* and the arguments it processed: the sum handler holds their sum, the
\* product handler their product
C8_OwnArgumentsOnly ==
  \A id \in DOMAIN handlers :
     /\ handlers[id].kind = "sum" => handlers[id].n = SeqSum(Processed(id))
     /\ handlers[id].kind = "prod" => handlers[id].n = SeqProd(Processed(id))

\* C8: state isolation between handlers under every interleaving; a sum and
\* a product handler in one registry hold 8 and 15 after emit 3, emit 5
C8_StateIsolation ==
  [](C8_OwnArgumentsOnly) /\ [][C8_OnlyOwnThreadWrites]_vars

\* C8 witness: sum and product handler after emit 3, emit 5
C8_Witness ==
  /\ pc = "idle" /\ hist = <<3, 5>>
  /\ \E i, j \in DOMAIN handlers :
        /\ handlers[i].kind = "sum" /\ handlers[i].n = 8
        /\ handlers[j].kind = "prod" /\ handlers[j].n = 15

\* C9: emit on a registry without handlers returns true, invokes no handler
\* and leaves the registry empty
C9_EmptyEmit ==
  /\ (pc = "emitting" /\ Round = {}) =>
        (ENABLED emit_return /\ handlers = <<>>
           /\ \A id \in Ids : threads[id] = "none" /\ calls[id] = 0)
  /\ (ret.op = "emit" /\ Round = {}) =>
        /\ ret.ok
        /\ handlers = <<>>
        /\ \A id \in Ids : threads[id] = "none" /\ calls[id] = 0

\* C9 witness: emit returned on the empty registry
C9_Witness == ret.op = "emit" /\ Round = {} /\ ret.ok /\ pc = "idle"

\* C10 as stated: after k registrations the registry holds k handlers
C10_Original == Cardinality(DOMAIN handlers) = adds

\* C10 (step part): add_handler returns an identifier under which the new
\* handler is stored; the registry grows by one entry when the identifier is
\* not yet a key and keeps its size, replacing the entry, when it is
C10_AddStep ==
  adds' = adds + 1 =>
     /\ ret'.op = "add" /\ ret'.id \in DOMAIN handlers'
     /\ \E k \in Kinds : handlers'[ret'.id] = NewHandler(k)
     /\ Cardinality(DOMAIN handlers') =
           Cardinality(DOMAIN handlers)
              + (IF ret'.id \in DOMAIN handlers THEN 0 ELSE 1)
     /\ \A id \in DOMAIN handlers \ {ret'.id} :
           id \in DOMAIN handlers' /\ handlers'[id] = handlers[id]

\* C10 amended: every add_handler call succeeds; the registry grows by
\* exactly one entry unless the generated identifier is already a key, so
\* after k registrations it holds k entries minus the colliding ones
C10_GrowsUnlessCollision ==
  /\ [](Cardinality(DOMAIN handlers) = adds - collisions)
  /\ [][C10_AddStep]_vars

\* C10 witness: two registrations, the second under the identifier of the
\* first, which had already processed an event
C10_Witness ==
  /\ ret.op = "add" /\ adds = 2 /\ collisions = 1 /\ hist # <<>>
  /\ Cardinality(DOMAIN handlers) = 1

\* ---- properties of lookup ----

\* the step is a registration that returned identifier id
Registers(id) == adds' = adds + 1 /\ ret'.op = "add" /\ ret'.id = id

\* the handler stored under id is the same one after the step: untouched, or
\* changed by the end of its own on_event
SameHandler(id) ==
  /\ id \in DOMAIN handlers'
  /\ \/ handlers'[id] = handlers[id]
     \/ /\ threads[id] = "running" /\ threads'[id] \in {"done", "panicked"}
        /\ handlers'[id] = on_event(handlers[id], targ[id]).h

\* get_handler answers with exactly the entry stored under the identifier
GetReturnsEntry ==
  (ret'.op = "get" /\ ret'.id \in DOMAIN handlers) =>
     (ret'.found /\ ret'.h = handlers[ret'.id] /\ handlers' = handlers)

\* C11 as stated: whatever is called later, the identifier returned by
\* add_handler(h) keeps identifying h
C11_Original == [][\A id \in DOMAIN handlers : SameHandler(id)]_vars

\* C11 amended: the identifier returned by add_handler(h) is never absent
\* afterwards and get_handler returns the entry stored under it, which is h
\* with the state its own on_event executions gave it until a later
\* add_handler draws the same identifier, and that call's handler from then on
C11_RoundTripUntilCollision ==
  /\ [][\A id \in Ids : Registers(id) => id \in DOMAIN handlers']_vars
  /\ [][\A id \in DOMAIN handlers :
          SameHandler(id)
             \/ (Registers(id) /\ \E k \in Kinds : handlers'[id] = NewHandler(k))]_vars
  /\ [][GetReturnsEntry]_vars

\* C11 witness: get_handler with the identifier of the first registration
\* finds the sum handler after a second registration and two emits
C11_Witness ==
  /\ ret.op = "get" /\ ret.found /\ Len(hist) = 2 /\ adds = 2
  /\ collisions = 0 /\ regAt[ret.id] = 0
  /\ ret.h.kind = "sum" /\ ret.h.n = hist[1] + hist[2]
  /\ \E j \in DOMAIN handlers : j # ret.id /\ regAt[j] = 1

\* C12: get_handler with an identifier that no registration returned (so not
\* a key: keys are exactly the identifiers returned) gives the absent result,
\* does not fault, and changes neither the registry nor a handler's state
C12_LookupMiss ==
  /\ [](\A id \in (Ids \cup {NoId}) \ DOMAIN handlers :
          pc = "idle" => ENABLED get_handler(id))
  /\ [][(ret'.op = "get" /\ ret'.id \notin DOMAIN handlers) =>
          /\ ~ret'.found /\ ret'.h = NoHandler
          /\ handlers' = handlers /\ pc' = "idle"
          /\ threads' = threads /\ adds' = adds]_vars

\* C12 witness: a miss on a registry that holds a handler with state
C12_Witness ==
  /\ ret.op = "get" /\ ~ret.found /\ ret.id \in Ids
  /\ \E j \in DOMAIN handlers : handlers[j].kind = "sum" /\ handlers[j].n = 8

\* ---- blocking and concurrency (checked under SpecLive) ----

Hanging == {id \in Round : pre[id].kind = "hang"}

\* C13 (step part): while a dispatched handler never returns, emit does not
\* return
C13_HangBlocksEmit == (pc = "emitting" /\ Hanging # {}) => pc' = "emitting"

\* C13: under fair scheduling, emit returns once every dispatched handler
\* finishes, normally or by panicking; with a handler that never returns,
\* emit never returns (no timeout, no cancellation)
C13_EmitReturnsIffHandlersFinish ==
  /\ (pc = "emitting" /\ Hanging = {}) ~> (pc = "idle" /\ ret.op = "emit")
  /\ [][C13_HangBlocksEmit]_vars

\* C13 witness: emit is blocked on a handler that never returns while the
\* other handler of the round has panicked
C13_Witness ==
  /\ pc = "emitting" /\ toSpawn = {} /\ Cardinality(Round) = 2
  /\ \E i, j \in Round : /\ pre[i].kind = "hang" /\ threads[i] = "running"
                         /\ threads[j] = "panicked"

\* C14 (state part): a spawned handler can start, and the loop can spawn the
\* next handler, whatever the other handlers of the round are doing
C14_StartNeverWaits ==
  /\ \A id \in Ids : threads[id] = "spawned" => ENABLED on_event_begin(id)
  /\ \A id \in Ids : (pc = "emitting" /\ id \in toSpawn) => ENABLED spawn(id)

\* C14: dispatch is concurrent: starting a handler never waits for another
\* to finish, so every spawned handler starts even while a handler that never
\* returns is running, and all K handlers can be in progress at once
C14_ConcurrentDispatch ==
  /\ [](C14_StartNeverWaits)
  /\ \A id \in Ids :
        (pc = "emitting" /\ id \in Round) ~> (threads[id] \in {"running", "done", "panicked"})

\* C14 witness: both handlers of a round are in progress at the same time,
\* one of them never returning
C14_Witness ==
  /\ pc = "emitting" /\ Cardinality(Round) = 2
  /\ \A id \in Round : threads[id] = "running"
  /\ \E i, j \in Round : pre[i].kind = "hang" /\ pre[j].kind = "noop"

\* ---- rounds, keys and writes (checked under Spec) ----

InProgress(id) == threads[id] \in {"spawned", "running"}

\* C15 (step part): a new round starts only when no handler execution of the
\* round before is spawned or running
C15_RoundStartsAfterRoundEnds ==
  hist' # hist => \A id \in Ids : ~InProgress(id) /\ calls'[id] = 0

\* C15: emit rounds on one registry never overlap, so at every moment at
\* most one unit of work executes a given handler
C15_RoundsNeverOverlap ==
  /\ [](pc = "idle" => \A id \in Ids : ~InProgress(id))
  /\ [](\A id \in Ids : calls[id] <= 1 /\ (threads[id] = "running" => calls[id] = 1))
  /\ [][C15_RoundStartsAfterRoundEnds]_vars

\* C15 witness: a handler that finished round 1 is running in round 2
C15_Witness ==
  /\ Len(hist) = 2 /\ pc = "emitting"
  /\ \E id \in Round : /\ threads[id] = "running" /\ calls[id] = 1
                       /\ handlers[id].kind = "sum" /\ handlers[id].n = hist[1]

\* C16: the set of registered identifiers only grows: emit and get_handler
\* leave it unchanged, also when handlers panic, and nothing removes a key
C16_KeysOnlyGrow ==
  /\ [](ret.op = "emit" => DOMAIN handlers = Round)
  /\ [](pc = "emitting" => DOMAIN handlers = Round)
  /\ [][/\ DOMAIN handlers \subseteq DOMAIN handlers'
        /\ adds' = adds => DOMAIN handlers' = DOMAIN handlers]_vars

\* C16 witness: emit returned false with both keys still in the mapping
C16_Witness ==
  /\ ret.op = "emit" /\ ~ret.ok /\ DOMAIN handlers = Ids
  /\ DOMAIN handlers = Round /\ \E id \in Ids : threads[id] = "panicked"

PanicHandlers == {id \in DOMAIN handlers : handlers[id].kind = "panic"}

\* C17 (state part): the handler of the panicking test has panicked set from
\* its first event on, although that event ended in a panic, and calmed set
\* from its second event on; a handler whose thread of the last round
\* panicked holds the write it made before the panic
C17_FlagSurvivesPanic ==
  \A id \in PanicHandlers :
     /\ handlers[id].panicked <=> Len(Processed(id)) >= 1
     /\ handlers[id].calmed <=> Len(Processed(id)) >= 2
     /\ (threads[id] = "panicked" /\ regAt[id] < Len(hist))
           => (handlers[id].panicked /\ ~handlers[id].calmed)

\* C17: state written before a panic is kept, not rolled back: get_handler
\* and the next round's execution see the flag set
C17_WritesBeforePanicKept ==
  /\ [](C17_FlagSurvivesPanic)
  /\ [][(ret'.op = "get" /\ ret'.id \in PanicHandlers
           /\ Len(Processed(ret'.id)) >= 1) => ret'.h.panicked]_vars

\* C17 witness: get_handler after two rounds finds the handler calmed
C17_Witness ==
  /\ ret.op = "get" /\ ret.found /\ ret.h.kind = "panic"
  /\ ret.h.panicked /\ ret.h.calmed /\ Len(hist) = 2

\* C18 (step part): a registration whose generated identifier is already a
\* key returns that identifier, puts the new handler in place of the old one
\* and its state, leaves the number of handlers as it was, and makes the
\* identifier look up the new handler
C18_CollidingAdd ==
  \A id \in DOMAIN handlers :
     Registers(id) =>
        /\ \E k \in Kinds : handlers'[id] = NewHandler(k)
        /\ DOMAIN handlers' = DOMAIN handlers
        /\ Cardinality(DOMAIN handlers') = Cardinality(DOMAIN handlers)
        /\ get(handlers', id) = [found |-> TRUE, h |-> handlers'[id]]
        /\ \A j \in DOMAIN handlers \ {id} : handlers'[j] = handlers[j]

\* C18: identifier collision is resolved by silent overwrite: add_handler
\* makes no check against the keys, so it can return a key already in use
C18_CollisionOverwrites ==
  /\ [](\A id \in DOMAIN handlers :
          (pc = "idle" /\ adds < MaxAdds) =>
             ENABLED (add_handler(NewHandler("sum")) /\ ret'.id = id))
  /\ [][C18_CollidingAdd]_vars

\* C18 witness: a product handler was registered under the identifier of a
\* sum handler that had processed an event; one handler is registered
C18_Witness ==
  /\ ret.op = "add" /\ collisions = 1 /\ Len(hist) = 1
  /\ Round = {ret.id} /\ pre[ret.id].kind = "sum"
  /\ handlers[ret.id] = NewHandler("prod")
  /\ Cardinality(DOMAIN handlers) = 1

RECURSIVE Replay(_, _)
\* the handler after on_event for each argument of s in turn, and whether
\* the last of these calls returned
Replay(r, s) ==
  IF s = <<>> THEN r ELSE Replay(on_event(r.h, Head(s)), Tail(s))

\* what the calls made so far determine for handler id
Determined(id) ==
  Replay([h |-> NewHandler(handlers[id].kind), ok |-> TRUE], Processed(id))

\* C19: the outcome of a round does not depend on scheduling: under every
\* interleaving each handler's state, and each emit's return value, is the
\* one determined by the sequence of add_handler and emit calls alone
C19_OutcomeIndependentOfSchedule ==
  /\ \A id \in DOMAIN handlers : handlers[id] = Determined(id).h
  /\ ret.op = "emit" => ret.ok = (\A id \in Round : Determined(id).ok)

\* C19 witness: round 2 returned with a sum handler and a calmed panic handler
C19_Witness ==
  /\ ret.op = "emit" /\ ret.ok /\ Len(hist) = 2
  /\ \E i, j \in Round : /\ handlers[i].kind = "sum" /\ handlers[i].n = hist[1] + hist[2]
                         /\ handlers[j].kind = "panic" /\ handlers[j].calmed
====
